---- MODULE Spec2Model ----
(***************************************************************************)
(* Model of the greeting-and-persistence path of nestjs-template-api:      *)
(* HelloController.say -> SayHelloUseCase.execute -> Repository.save on    *)
(* the hellos table (HelloEntity / migration CreateHellos1698690000000).   *)
(*                                                                         *)
(* A request is one invocation of say(name).  Its synchronous part runs up *)
(* to `await this.repo.save(rec)`; the store then performs (or refuses)    *)
(* the insert; the continuation after the await builds the result.  Any    *)
(* number of requests up to MaxCalls may be in flight together.            *)
(***************************************************************************)
EXTENDS Integers, Sequences, FiniteSets, TLC

\* Bounds of the model.
MaxCalls == 2
MaxClock == 1
MaxSeedRuns == 2
MaxSeedCalls == 1
MaxMigrationCommands == 4

\* @Column({ length: 100, nullable: true }) / { type: 'varchar', length: '100' }
NameMaxLen == 100

(***************************************************************************)
(* JavaScript values that occur on the path: undefined, null and strings.  *)
(***************************************************************************)
Undefined == [t |-> "undefined", v |-> ""]
Null == [t |-> "null", v |-> ""]
Str(s) == [t |-> "string", v |-> s]

\* A string held as the sequence of its characters.
Chars(cs) == [t |-> "string", v |-> cs]

RECURSIVE Repeat(_, _)
Repeat(c, n) == IF n = 0 THEN "" ELSE c \o Repeat(c, n - 1)

\* The values the name query parameter takes in the model: absent, empty,
\* two ordinary names, and one name on each side of the column's bound.
Names ==
  { Undefined, Str(""), Str("Bob"), Str("Alice"),
    Str(Repeat("x", NameMaxLen)), Str(Repeat("x", NameMaxLen + 1)) }

Calls == 1 .. MaxCalls

VARIABLES
  hellos,      \* the rows of table hellos, in insertion order
  lastId,      \* last value handed out by the id column's generator
  now,         \* the store's clock at its last insert (source of createdAt)
  req,         \* req[i]: the i-th invocation of say/execute
  insertedBy,  \* insertedBy[k]: the invocation whose save inserted hellos[k]
               \* (0: seeded before the start; -r: the r-th run of the seed script)
  seed,        \* the seed script's process: its current or last run
  env,         \* the process environment (.env)
  boot,        \* the data source options the application and the CLI were built with
  schema       \* the database schema: its tables and the migrations table

vars == <<hellos, lastId, now, req, insertedBy, seed, env, boot, schema>>

None == [t |-> "none", v |-> ""]

IdleReq ==
  [ pc |-> "idle", name |-> Undefined, rec |-> None, nSave |-> 0,
    saved |-> None, storeError |-> None, result |-> None, thrown |-> None,
    response |-> None, sayThrown |-> None, before |-> {},
    execArg |-> None, nExec |-> 0, wire |-> None ]

\* The rows the seed script leaves on a freshly migrated table:
\* repo.insert([{ name: 'Alice', ... }, { name: 'Bob', ... }]).
SeedRows ==
  << [id |-> 1, name |-> Str("Alice"), message |-> Str("Hello Alice!"), createdAt |-> 0],
     [id |-> 2, name |-> Str("Bob"), message |-> Str("Hello Bob!"), createdAt |-> 0] >>

\* The seed script before its first run.
SeedIdle ==
  [pc |-> "idle", run |-> 0, calls |-> << >>, payload |-> << >>, log |-> << >>,
   exit |-> -1, inserts |-> 0]

EnvVars ==
  { "POSTGRES_HOST", "POSTGRES_PORT", "POSTGRES_USER", "POSTGRES_PASSWORD",
    "POSTGRES_DB", "NODE_ENV", "SYNCHRONIZE" }

\* An environment in which no variable is set.
EmptyEnv == [x \in EnvVars |-> Undefined]

\* Neither the application nor the CLI data source has been built.
BootDown == [app |-> None, synced |-> FALSE, cli |-> None]

(***************************************************************************)
(* The schema: migration CreateHellos1698690000000 and HelloEntity.        *)
(***************************************************************************)
\* An option of an options object, or the fallback when it is not given.
Opt(o, key, fallback) == IF key \in DOMAIN o THEN o[key] ELSE fallback

\* Variant of HellosTable: the name column without isNullable.
HellosTableNameRequired ==
  [ name |-> "hellos",
    columns |->
      << [name |-> "id", type |-> "int", isPrimary |-> TRUE, isGenerated |-> TRUE,
          generationStrategy |-> Str("increment")],
         [name |-> "name", type |-> "varchar", length |-> Chars(<<"1", "0", "0">>)],
         [name |-> "message", type |-> "text"],
         [name |-> "createdAt", type |-> "timestamptz", default |-> Str("now()")] >> ]

\* new Table({ name: 'hellos', columns: [...] }), as up() writes it.
HellosTable ==
  [ name |-> "hellos",
    columns |->
      << [name |-> "id", type |-> "int", isPrimary |-> TRUE, isGenerated |-> TRUE,
          generationStrategy |-> Str("increment")],
         [name |-> "name", type |-> "varchar", length |-> Chars(<<"1", "0", "0">>),
          isNullable |-> TRUE],
         [name |-> "message", type |-> "text"],
         [name |-> "createdAt", type |-> "timestamptz", default |-> Str("now()")] >> ]

\* The column a column entry of a Table declares: an option left out takes
\* its default (not nullable, not primary, not generated, no length, no default).
TableColumn(o) ==
  [ name |-> o.name,
    type |-> o.type,
    length |-> Opt(o, "length", Chars(<< >>)),
    isNullable |-> Opt(o, "isNullable", FALSE),
    isPrimary |-> Opt(o, "isPrimary", FALSE),
    isGenerated |-> Opt(o, "isGenerated", FALSE),
    generationStrategy |-> Opt(o, "generationStrategy", Undefined),
    default |-> Opt(o, "default", Undefined) ]

HasTable(tables, name) == \E t \in tables : t.name = name

\* queryRunner.createTable(table)
CreateTable(tables, table) ==
  tables \cup { [ name |-> table.name,
                  columns |-> [k \in DOMAIN table.columns |->
                                 TableColumn(table.columns[k])] ] }

\* queryRunner.dropTable(name)
DropTable(tables, name) == { t \in tables : t.name # name }

\* CreateHellos1698690000000.up and .down
CreateHellosUp(tables) == CreateTable(tables, HellosTable)
CreateHellosDown(tables) == DropTable(tables, "hellos")

\* The row of the migrations table that records the migration.
CreateHellos == "CreateHellos1698690000000"

\* A database no migration has run on.
SchemaEmpty == [tables |-> {}, executed |-> << >>, history |-> << >>]

\* The schema once a migration command has changed it: history keeps the
\* tables each command left.
Migrated(s, cmd, tables, executed) ==
  [ tables |-> tables,
    executed |-> executed,
    history |-> Append(s.history, [cmd |-> cmd, tables |-> tables]) ]

\* The database after the first `typeorm:migrate`.
SchemaMigrated ==
  Migrated(SchemaEmpty, "run", CreateHellosUp({}), <<CreateHellos>>)

\* @Entity({ name: 'hellos' }) class HelloEntity, by its column decorators.
HelloEntity ==
  [ name |-> "hellos",
    columns |->
      << [propertyName |-> "id", decorator |-> "PrimaryGeneratedColumn"],
         [propertyName |-> "name", decorator |-> "Column",
          length |-> NameMaxLen, nullable |-> TRUE],
         [propertyName |-> "message", decorator |-> "Column"],
         [propertyName |-> "createdAt", decorator |-> "CreateDateColumn",
          type |-> "timestamptz"] >> ]

\* The application starts on the migrated table, either empty or seeded.
Init ==
  /\ hellos \in { << >>, SeedRows }
  /\ lastId = Len(hellos)
  /\ now = 0
  /\ req = [i \in Calls |-> IdleReq]
  /\ insertedBy = [k \in 1 .. Len(hellos) |-> 0]
  /\ seed = SeedIdle
  /\ env = EmptyEnv
  /\ boot = BootDown
  /\ schema = SchemaMigrated

(***************************************************************************)
(* SayHelloUseCase.execute, synchronous part.                              *)
(***************************************************************************)
\* Variant of Message: `||` in place of `??`, so an empty name gets the default.
MessageFalsyDefault(name) ==
  "Hello " \o (IF name.t \in {"undefined", "null"} \/ name.v = "" THEN "World" ELSE name.v)
           \o "!"

\* Variant of RepoCreate: the caller sets createdAt itself.
RepoCreateWithDate(name, message) ==
  [name |-> name, message |-> Str(message), createdAt |-> 0]

\* Variants of Message: the name is ignored; the `?? 'World'` default is missing.
MessageIgnoresName(name) == "Hello World!"

MessageNoDefault(name) ==
  "Hello " \o (IF name.t = "string" THEN name.v ELSE name.t) \o "!"

\* const message = `Hello ${name ?? 'World'}!`;
Message(name) ==
  "Hello " \o (IF name.t \in {"undefined", "null"} THEN "World" ELSE name.v) \o "!"

\* this.repo.create({ name, message }): a new entity carrying the two fields;
\* id and createdAt are not set by the caller.
RepoCreate(name, message) == [name |-> name, message |-> Str(message)]

\* The invocations that have returned or thrown.
Finished == {j \in Calls : req[j].pc \in {"returned", "threw"}}

\* Variant of SayArg: an empty name is passed on as absent (`name || undefined`).
SayArgEmptyAsAbsent(name) == IF name = Str("") THEN Undefined ELSE name

\* say: this.sayHello.execute(name) -- the query parameter as received.
SayArg(name) == name

\* say(name) calls execute(name), which runs up to `await this.repo.save(rec)`.
Call(i, n) ==
  /\ req[i].pc = "idle"
  /\ \A j \in Calls : j < i => req[j].pc # "idle"
  /\ LET arg == SayArg(n) IN
       req' = [req EXCEPT ![i] =
                 [@ EXCEPT !.pc = "awaitSave",
                           !.name = n,
                           !.execArg = arg,
                           !.nExec = @ + 1,
                           !.rec = RepoCreate(arg, Message(arg)),
                           !.nSave = @ + 1,
                           !.before = Finished]]
  /\ UNCHANGED <<hellos, lastId, now, insertedBy, seed, env, boot, schema>>

(***************************************************************************)
(* The store: table hellos behind Repository<HelloEntity>.save.            *)
(***************************************************************************)
\* Variant of ColumnViolation: the length bound is off by one.
ColumnViolationOffByOne(rec) ==
  \/ rec.message.t # "string"
  \/ rec.name.t = "string" /\ Len(rec.name.v) >= NameMaxLen

\* name: varchar(100), nullable; message: text, required.
ColumnViolation(rec) ==
  \/ rec.message.t # "string"
  \/ rec.name.t = "string" /\ Len(rec.name.v) > NameMaxLen

\* A nullable column that is given no value is stored as NULL.
ToColumn(v) == IF v.t = "undefined" THEN Null ELSE v

\* Variants of NextId: the generator stops advancing; it counts downwards.
NextIdStuck(last) == IF last = 0 THEN 1 ELSE last

NextIdDown(last) == last - 1

\* id: isGenerated, generationStrategy 'increment'.
NextId(last) == last + 1

\* Variant of NewRow: an unset name is stored as the empty string, not NULL.
NewRowEmptyForNull(rec, id, at) ==
  [id |-> id, name |-> (IF rec.name.t = "string" THEN rec.name ELSE Str("")),
   message |-> rec.message, createdAt |-> at]

\* The row the insert of entity rec writes: id from the generator,
\* createdAt from the store's clock (default now()).
NewRow(rec, id, at) ==
  [id |-> id, name |-> ToColumn(rec.name), message |-> rec.message, createdAt |-> at]

\* Variant of SavedEntity: an unset name stays undefined on the entity.
SavedEntityKeepsUndefined(rec, row) ==
  [id |-> row.id, name |-> rec.name, message |-> rec.message, createdAt |-> row.createdAt]

\* The entity save resolves with: the entity it was given, with the generated
\* columns of the inserted row merged in and an unset nullable column as null.
SavedEntity(rec, row) ==
  [id |-> row.id, name |-> ToColumn(rec.name), message |-> rec.message,
   createdAt |-> row.createdAt]

StorageUnavailable == [t |-> "error", v |-> "StorageUnavailable"]
ConstraintViolation == [t |-> "error", v |-> "ConstraintViolation"]

\* Variant of SaveOk: the row replaces the newest row of a non-empty table.
SaveOkOverwrite(i, at) ==
  /\ req[i].pc = "awaitSave"
  /\ at >= now
  /\ ~ColumnViolation(req[i].rec)
  /\ LET row == NewRow(req[i].rec, NextId(lastId), at) IN
       /\ hellos' = IF hellos = << >> THEN <<row>>
                    ELSE [hellos EXCEPT ![Len(hellos)] = row]
       /\ insertedBy' = IF hellos = << >> THEN <<i>>
                        ELSE [insertedBy EXCEPT ![Len(hellos)] = i]
       /\ lastId' = row.id
       /\ req' = [req EXCEPT ![i] = [@ EXCEPT !.pc = "resolved",
                                             !.saved = SavedEntity(req[i].rec, row)]]
  /\ now' = at
  /\ UNCHANGED <<seed, env, boot, schema>>

\* Variant of SaveOk: the row is written twice (a retried insert).
SaveOkTwice(i, at) ==
  /\ req[i].pc = "awaitSave"
  /\ at >= now
  /\ ~ColumnViolation(req[i].rec)
  /\ LET row == NewRow(req[i].rec, NextId(lastId), at)
         again == NewRow(req[i].rec, NextId(NextId(lastId)), at) IN
       /\ hellos' = hellos \o <<row, again>>
       /\ insertedBy' = insertedBy \o <<i, i>>
       /\ lastId' = again.id
       /\ req' = [req EXCEPT ![i] = [@ EXCEPT !.pc = "resolved",
                                             !.saved = SavedEntity(req[i].rec, again)]]
  /\ now' = at
  /\ UNCHANGED <<seed, env, boot, schema>>

\* The save of invocation i succeeds at store time `at`: one row is inserted
\* and the promise resolves with the entity, its generated columns filled in.
SaveOk(i, at) ==
  /\ req[i].pc = "awaitSave"
  /\ at >= now
  /\ ~ColumnViolation(req[i].rec)
  /\ LET row == NewRow(req[i].rec, NextId(lastId), at) IN
       /\ hellos' = Append(hellos, row)
       /\ insertedBy' = Append(insertedBy, i)
       /\ lastId' = row.id
       /\ req' = [req EXCEPT ![i] = [@ EXCEPT !.pc = "resolved",
                                             !.saved = SavedEntity(req[i].rec, row)]]
  /\ now' = at
  /\ UNCHANGED <<seed, env, boot, schema>>

\* The save of invocation i fails: the store cannot be reached (possible at
\* any time), or it refuses the row; nothing is written and the promise
\* rejects with the store's error.
SaveFail(i, err) ==
  /\ req[i].pc = "awaitSave"
  /\ \/ err = StorageUnavailable
     \/ err = ConstraintViolation /\ ColumnViolation(req[i].rec)
  /\ req' = [req EXCEPT ![i] = [@ EXCEPT !.pc = "rejected", !.storeError = err]]
  /\ UNCHANGED <<hellos, lastId, now, insertedBy, seed, env, boot, schema>>

(***************************************************************************)
(* SayHelloUseCase.execute, continuation after the await, and the return   *)
(* of HelloController.say.                                                 *)
(***************************************************************************)
\* Variant of ExecuteResult: the result is read from the newest row of the
\* table instead of the entity this call saved.
ExecuteResultFromLastRow(saved) ==
  LET last == hellos[Len(hellos)]
  IN  [id |-> last.id, name |-> last.name, message |-> last.message]

\* Variant of ExecuteResult: the saved entity is returned whole.
ExecuteReturnsSaved(saved) == saved

\* return { id: saved.id, name: saved.name, message: saved.message };
ExecuteResult(saved) ==
  [id |-> saved.id, name |-> saved.name, message |-> saved.message]

\* Variant of ExecuteThrow: the store's error is replaced by another one.
ExecuteWrapError(err) == [t |-> "error", v |-> "InternalServerError"]

\* execute has no try/catch: a rejection of save rejects execute with the same error.
ExecuteThrow(err) == err

\* say: return this.sayHello.execute(name);  (@Get(): status 200)
SayResponse(result) == [status |-> 200, body |-> result]

\* The response body on the wire: JSON of the value say resolved with.  A
\* field whose value is undefined is left out; null is written as null.
JsonBody(obj) ==
  LET kept == {f \in DOMAIN obj :
                 IF f \in {"id", "createdAt"} THEN TRUE ELSE obj[f].t # "undefined"}
  IN  [f \in kept |-> obj[f]]

\* say has no try/catch either.
SayThrow(err) == err

Resume(i) ==
  /\ \/ /\ req[i].pc = "resolved"
        /\ LET result == ExecuteResult(req[i].saved) IN
             req' = [req EXCEPT ![i] =
                       [@ EXCEPT !.pc = "returned",
                                 !.result = result,
                                 !.response = SayResponse(result),
                                 !.wire = JsonBody(SayResponse(result).body)]]
     \/ /\ req[i].pc = "rejected"
        /\ LET err == ExecuteThrow(req[i].storeError) IN
             req' = [req EXCEPT ![i] =
                       [@ EXCEPT !.pc = "threw",
                                 !.thrown = err,
                                 !.sayThrown = SayThrow(err)]]
  /\ UNCHANGED <<hellos, lastId, now, insertedBy, seed, env, boot, schema>>

(***************************************************************************)
(* The seed script: seed() and its catch handler.                          *)
(***************************************************************************)
\* Variant of SeedRecords: a third sample record.
SeedRecordsThree ==
  << [name |-> Str("Alice"), message |-> Str("Hello Alice!")],
     [name |-> Str("Bob"), message |-> Str("Hello Bob!")],
     [name |-> Str("Carol"), message |-> Str("Hello Carol!")] >>

\* The argument of repo.insert([...]).
SeedRecords ==
  << [name |-> Str("Alice"), message |-> Str("Hello Alice!")],
     [name |-> Str("Bob"), message |-> Str("Hello Bob!")] >>

\* A line of the process's output.
StdOut(text) == [stream |-> "stdout", text |-> text]
StdErr(err) == [stream |-> "stderr", text |-> err.v]

\* Variant of SeedCatch: the process exits with code 1 without logging the error.
SeedCatchSilent(s, err) == [s EXCEPT !.pc = "exited", !.exit = 1]

\* seed().catch((err) => { console.error(err); process.exit(1); })
SeedCatch(s, err) ==
  [s EXCEPT !.pc = "exited", !.exit = 1, !.log = Append(@, StdErr(err))]

\* A run starts: await AppDataSource.initialize() succeeds or rejects.
SeedInitialize(ok) ==
  /\ seed.pc \in {"idle", "exited"}
  /\ seed.run < MaxSeedRuns
  /\ LET s == [SeedIdle EXCEPT !.run = seed.run + 1,
                               !.inserts = seed.inserts,
                               !.calls = <<"initialize">>] IN
       seed' = IF ok THEN [s EXCEPT !.pc = "initialized"]
               ELSE SeedCatch(s, StorageUnavailable)
  /\ UNCHANGED <<hellos, lastId, now, req, insertedBy, env, boot, schema>>

\* The rows one insert statement writes for the entities recs, at store time at.
RECURSIVE InsertedRows(_, _, _)
InsertedRows(recs, last, at) ==
  IF recs = << >> THEN << >>
  ELSE LET row == NewRow(Head(recs), NextId(last), at)
       IN  <<row>> \o InsertedRows(Tail(recs), row.id, at)

\* await repo.insert([...]): one statement, all rows or none; it is rejected
\* when the store cannot be reached or the table does not exist.
SeedInsert(ok, at) ==
  /\ seed.pc = "initialized"
  /\ LET recs == SeedRecords
         s == [seed EXCEPT !.calls = Append(@, "insert"), !.payload = recs] IN
       \/ /\ ok
          /\ HasTable(schema.tables, HelloEntity.name)
          /\ at >= now
          /\ \A k \in 1 .. Len(recs) : ~ColumnViolation(recs[k])
          /\ LET rows == InsertedRows(recs, lastId, at) IN
               /\ hellos' = hellos \o rows
               /\ insertedBy' = insertedBy \o [k \in 1 .. Len(rows) |-> 0 - seed.run]
               /\ lastId' = rows[Len(rows)].id
               /\ now' = at
          /\ seed' = [s EXCEPT !.pc = "inserted", !.inserts = @ + 1]
       \/ /\ ~ok
          /\ at = now
          /\ seed' = SeedCatch(s, StorageUnavailable)
          /\ UNCHANGED <<hellos, lastId, now, insertedBy>>
  /\ UNCHANGED <<req, env, boot, schema>>

\* console.log('Seed complete');
SeedLog ==
  /\ seed.pc = "inserted"
  /\ seed' = [seed EXCEPT !.pc = "logged",
                          !.calls = Append(@, "log"),
                          !.log = Append(@, StdOut("Seed complete"))]
  /\ UNCHANGED <<hellos, lastId, now, req, insertedBy, env, boot, schema>>

\* await AppDataSource.destroy() succeeds (the process ends with code 0) or rejects.
SeedDestroy(ok) ==
  /\ seed.pc = "logged"
  /\ LET s == [seed EXCEPT !.calls = Append(@, "destroy")] IN
       seed' = IF ok THEN [s EXCEPT !.pc = "exited", !.exit = 0]
               ELSE SeedCatch(s, StorageUnavailable)
  /\ UNCHANGED <<hellos, lastId, now, req, insertedBy, env, boot, schema>>

Next ==
  \/ \E i \in Calls, n \in Names : Call(i, n)
  \/ \E i \in Calls, at \in 0 .. MaxClock : SaveOk(i, at)
  \/ \E i \in Calls, err \in {StorageUnavailable, ConstraintViolation} : SaveFail(i, err)
  \/ \E i \in Calls : Resume(i)

Spec == Init /\ [][Next]_vars

\* The seed script run against the database the application is serving.
SeedCalls == 1 .. MaxSeedCalls

\* The names of the requests served while the seed script runs.
SeedNames == { Undefined, Str(""), Str("Bob") }

NextSeed ==
  \/ \E i \in SeedCalls, n \in SeedNames : Call(i, n)
  \/ \E i \in SeedCalls, at \in 0 .. MaxClock : SaveOk(i, at)
  \/ \E i \in SeedCalls, err \in {StorageUnavailable, ConstraintViolation} : SaveFail(i, err)
  \/ \E i \in SeedCalls : Resume(i)
  \/ \E ok \in BOOLEAN : SeedInitialize(ok)
  \/ \E ok \in BOOLEAN, at \in 0 .. MaxClock : SeedInsert(ok, at)
  \/ SeedLog
  \/ \E ok \in BOOLEAN : SeedDestroy(ok)

SpecSeed == Init /\ [][NextSeed]_vars

(***************************************************************************)
(* Configuration: DatabaseModule's useFactory and the CLI data source.     *)
(* A value of the environment is a string, held as its characters.         *)
(***************************************************************************)
\* The environments of the model: each variable unset or set.
Envs ==
  { e \in [EnvVars -> { Undefined, Chars(<<"d", "b">>), Chars(<<"5", "4", "3", "3">>),
                        Chars(<<"8", "0", "x">>), Chars(<<"t", "r", "u", "e">>),
                        Chars(<<"f", "a", "l", "s", "e">>),
                        Chars(<<"p", "r", "o", "d", "u", "c", "t", "i", "o", "n">>) }] :
      /\ e["POSTGRES_HOST"] \in { Undefined, Chars(<<"d", "b">>) }
      /\ e["POSTGRES_PORT"] \in { Undefined, Chars(<<"5", "4", "3", "3">>),
                                  Chars(<<"8", "0", "x">>) }
      /\ e["POSTGRES_USER"] \in { Undefined, Chars(<<"d", "b">>) }
      /\ e["POSTGRES_PASSWORD"] \in { Undefined, Chars(<<"d", "b">>) }
      /\ e["POSTGRES_DB"] \in { Undefined, Chars(<<"d", "b">>) }
      /\ e["NODE_ENV"] \in { Undefined,
                             Chars(<<"p", "r", "o", "d", "u", "c", "t", "i", "o", "n">>) }
      /\ e["SYNCHRONIZE"] \in { Undefined, Chars(<<"t", "r", "u", "e">>),
                                Chars(<<"f", "a", "l", "s", "e">>) } }

\* config.get<string>(key, fallback) and process.env[key] ?? fallback.
ConfigGet(e, key, fallback) == IF e[key] = Undefined THEN Chars(fallback) ELSE e[key]

DigitChars == {"0", "1", "2", "3", "4", "5", "6", "7", "8", "9"}

DigitValue(c) ==
  CASE c = "0" -> 0 [] c = "1" -> 1 [] c = "2" -> 2 [] c = "3" -> 3 [] c = "4" -> 4
    [] c = "5" -> 5 [] c = "6" -> 6 [] c = "7" -> 7 [] c = "8" -> 8 [] c = "9" -> 9

RECURSIVE ParseDigits(_, _)
ParseDigits(cs, acc) ==
  IF cs = << >> \/ Head(cs) \notin DigitChars THEN acc
  ELSE ParseDigits(Tail(cs), acc * 10 + DigitValue(Head(cs)))

\* parseInt(s, 10): the leading decimal digits, NaN when there are none.
ParseInt(str) ==
  IF str.v = << >> \/ Head(str.v) \notin DigitChars
  THEN [t |-> "number", v |-> "NaN"]
  ELSE [t |-> "number", v |-> ParseDigits(str.v, 0)]

\* DatabaseModule: TypeOrmModule.forRootAsync({ useFactory: (config) => ({ ... }) })
TypeOrmOptions(e) ==
  [ type |-> "postgres",
    host |-> ConfigGet(e, "POSTGRES_HOST", <<"l", "o", "c", "a", "l", "h", "o", "s", "t">>),
    port |-> ParseInt(ConfigGet(e, "POSTGRES_PORT", <<"5", "4", "3", "2">>)),
    username |-> ConfigGet(e, "POSTGRES_USER", <<"p", "o", "s", "t", "g", "r", "e", "s">>),
    password |-> ConfigGet(e, "POSTGRES_PASSWORD", <<"p", "o", "s", "t", "g", "r", "e", "s">>),
    database |-> ConfigGet(e, "POSTGRES_DB", <<"p", "o", "s", "t", "g", "r", "e", "s">>),
    synchronize |-> FALSE ]

\* const isProd = process.env.NODE_ENV === 'production';
IsProd(e) == e["NODE_ENV"] = Chars(<<"p", "r", "o", "d", "u", "c", "t", "i", "o", "n">>)

\* export default new DataSource({ ... })
DataSourceOptions(e) ==
  [ type |-> "postgres",
    host |-> ConfigGet(e, "POSTGRES_HOST", <<"l", "o", "c", "a", "l", "h", "o", "s", "t">>),
    port |-> ParseInt(ConfigGet(e, "POSTGRES_PORT", <<"5", "4", "3", "2">>)),
    username |-> ConfigGet(e, "POSTGRES_USER", <<"p", "o", "s", "t", "g", "r", "e", "s">>),
    password |-> ConfigGet(e, "POSTGRES_PASSWORD", <<"p", "o", "s", "t", "g", "r", "e", "s">>),
    database |-> ConfigGet(e, "POSTGRES_DB", <<"p", "o", "s", "t", "g", "r", "e", "s">>),
    synchronize |-> FALSE,
    logging |-> FALSE,
    migrations |-> IF IsProd(e) THEN "dist/database/migrations/*.js"
                   ELSE "src/database/migrations/*.ts" ]

\* The application starts: the connection is built from the factory's
\* options, and the schema is synchronized when they say so.
Bootstrap ==
  /\ boot.app = None
  /\ LET options == TypeOrmOptions(env) IN
       boot' = [boot EXCEPT !.app = options, !.synced = options.synchronize]
  /\ UNCHANGED <<hellos, lastId, now, req, insertedBy, seed, env, schema>>

\* A CLI command (migration, seed) loads the data source module.
LoadDataSource ==
  /\ boot.cli = None
  /\ boot' = [boot EXCEPT !.cli = DataSourceOptions(env)]
  /\ UNCHANGED <<hellos, lastId, now, req, insertedBy, seed, env, schema>>

InitConfig ==
  /\ hellos = << >>
  /\ lastId = 0
  /\ now = 0
  /\ req = [i \in Calls |-> IdleReq]
  /\ insertedBy = << >>
  /\ seed = SeedIdle
  /\ env \in Envs
  /\ boot = BootDown
  /\ schema = SchemaMigrated

NextConfig ==
  \/ Bootstrap
  \/ LoadDataSource

SpecConfig == InitConfig /\ [][NextConfig]_vars

(***************************************************************************)
(* The migration commands: typeorm:migrate and typeorm:revert.             *)
(***************************************************************************)
\* typeorm:migrate applies the pending migration in a transaction and
\* records it in the migrations table.
MigrationRun ==
  /\ Len(schema.history) < MaxMigrationCommands
  /\ schema.executed = << >>
  /\ ~HasTable(schema.tables, HellosTable.name)
  /\ schema' = Migrated(schema, "run", CreateHellosUp(schema.tables),
                        Append(schema.executed, CreateHellos))
  /\ UNCHANGED <<hellos, lastId, now, req, insertedBy, seed, env, boot>>

\* typeorm:revert undoes the last executed migration and removes its
\* record; the table goes with its rows and its id sequence.
MigrationRevert ==
  /\ Len(schema.history) < MaxMigrationCommands
  /\ schema.executed # << >>
  /\ schema.executed[Len(schema.executed)] = CreateHellos
  /\ schema' = Migrated(schema, "revert", CreateHellosDown(schema.tables),
                        SubSeq(schema.executed, 1, Len(schema.executed) - 1))
  /\ hellos' = << >>
  /\ insertedBy' = << >>
  /\ lastId' = 0
  /\ UNCHANGED <<now, req, seed, env, boot>>

\* A database on which the commands have yet to run.
InitMigration ==
  /\ hellos = << >>
  /\ lastId = 0
  /\ now = 0
  /\ req = [i \in Calls |-> IdleReq]
  /\ insertedBy = << >>
  /\ seed = SeedIdle
  /\ env = EmptyEnv
  /\ boot = BootDown
  /\ schema = SchemaEmpty

\* The migration commands and the seed script on one database.
NextMigration ==
  \/ MigrationRun
  \/ MigrationRevert
  \/ \E ok \in BOOLEAN : SeedInitialize(ok)
  \/ \E ok \in BOOLEAN, at \in 0 .. MaxClock : SeedInsert(ok, at)
  \/ SeedLog
  \/ \E ok \in BOOLEAN : SeedDestroy(ok)

SpecMigration == InitMigration /\ [][NextMigration]_vars

(***************************************************************************)
(* Properties.                                                             *)
(***************************************************************************)
Returned(i) == req[i].pc = "returned"
Threw(i) == req[i].pc = "threw"
Called(i) == req[i].pc # "idle"

\* The positions of the rows that invocation i inserted.
RowsOf(i) == {k \in 1 .. Len(hellos) : insertedBy[k] = i}

\* Invocation i was called with a present name of 1 to NameMaxLen characters.
PresentName(i) ==
  /\ Called(i)
  /\ req[i].name.t = "string"
  /\ Len(req[i].name.v) \in 1 .. NameMaxLen

\* Invocation i was called without a name.
AbsentName(i) == Called(i) /\ req[i].name = Undefined

\* C1: for every present name n of 1 to 100 characters, execute(n) asks the
\* store to create the record {name: n, message: "Hello " + n + "!"} and
\* returns message = "Hello " + n + "!" and name = n.
C1_PresentNameGreeting ==
  \A i \in Calls : PresentName(i) =>
    LET n == req[i].name.v IN
      /\ req[i].rec = [name |-> Str(n), message |-> Str("Hello " \o n \o "!")]
      /\ Returned(i) =>
           /\ req[i].result.message = Str("Hello " \o n \o "!")
           /\ req[i].result.name = Str(n)

C1_Witness ==
  \E i, j \in Calls :
    /\ Returned(i) /\ req[i].name = Str("Alice")
    /\ req[i].result.message = Str("Hello Alice!")
    /\ Returned(j) /\ Len(req[j].name.v) = NameMaxLen

\* C2: when the name is absent, execute() asks the store to create a record
\* with no name and message "Hello World!", and returns message "Hello World!"
\* with a name that is absent or null.
C2_AbsentNameGreeting ==
  \A i \in Calls : AbsentName(i) =>
    /\ req[i].rec = [name |-> Undefined, message |-> Str("Hello World!")]
    /\ Returned(i) =>
         /\ req[i].result.message = Str("Hello World!")
         /\ req[i].result.name \in {Undefined, Null}

C2_Witness ==
  \E i \in Calls :
    /\ AbsentName(i) /\ Returned(i)
    /\ req[i].result.message = Str("Hello World!")

\* C3: every call to execute invokes save once and a successful call inserts
\* exactly one row: after k successful calls the store holds exactly k more
\* records than it started with, and no call writes zero or several rows.
C3_OneRowPerCall ==
  /\ Len(insertedBy) = Len(hellos)
  /\ \A i \in Calls :
       /\ req[i].nSave = (IF Called(i) THEN 1 ELSE 0)
       /\ req[i].pc \in {"resolved", "returned"} => Cardinality(RowsOf(i)) = 1
       /\ req[i].pc \notin {"resolved", "returned"} => RowsOf(i) = {}
  /\ Len(hellos) = Cardinality(RowsOf(0))
                     + Cardinality({i \in Calls : req[i].pc \in {"resolved", "returned"}})
  /\ Cardinality(RowsOf(0)) \in {0, Len(SeedRows)}

C3_Witness ==
  /\ \A i \in Calls : Returned(i)
  /\ Len(hellos) = Cardinality(RowsOf(0)) + MaxCalls
  /\ MaxCalls >= 2

\* C4: each successful call returns an id distinct from the id of every other
\* record in the store and from every id another call returned, also when
\* the input is identical: two calls with the same name yield two records
\* with different ids and the same name and message.
C4_FreshId ==
  /\ \A k, l \in 1 .. Len(hellos) : k # l => hellos[k].id # hellos[l].id
  /\ \A i \in Calls : Returned(i) =>
       /\ \A k \in 1 .. Len(hellos) :
            hellos[k].id = req[i].result.id => insertedBy[k] = i
       /\ \A j \in Calls : (j # i /\ Returned(j)) =>
            /\ req[j].result.id # req[i].result.id
            /\ req[j].name = req[i].name =>
                 /\ req[j].result.name = req[i].result.name
                 /\ req[j].result.message = req[i].result.message

C4_Witness ==
  \E i, j \in Calls :
    /\ i # j /\ Returned(i) /\ Returned(j)
    /\ req[i].name = Str("Bob") /\ req[j].name = Str("Bob")
    /\ req[i].result.id # req[j].result.id
    /\ RowsOf(0) # {}

\* C5: when the store's save fails (store unavailable or constraint
\* violated), execute does not retry, the store's error reaches the caller
\* of execute and of HelloController.say unchanged, no result is returned,
\* and the failed call leaves no row in the store.
C5_SaveFailurePropagates ==
  \A i \in Calls :
    /\ req[i].pc \in {"rejected", "threw"} =>
         /\ req[i].storeError \in {StorageUnavailable, ConstraintViolation}
         /\ req[i].nSave = 1
         /\ RowsOf(i) = {}
         /\ req[i].saved = None
         /\ req[i].result = None
         /\ req[i].response = None
    /\ Threw(i) =>
         /\ req[i].thrown = req[i].storeError
         /\ req[i].sayThrown = req[i].storeError
    /\ req[i].thrown # None => Threw(i)

C5_Witness ==
  \E i, j \in Calls :
    /\ Threw(i) /\ req[i].sayThrown = StorageUnavailable
    /\ Threw(j) /\ req[j].sayThrown = ConstraintViolation

\* C6: the result of execute has exactly the fields id, name and message,
\* each copied from the entity that save resolved with (not from the input);
\* createdAt is persisted with the row but is not part of the result.
C6_ResultFields ==
  \A i \in Calls : Returned(i) =>
    /\ DOMAIN req[i].result = {"id", "name", "message"}
    /\ req[i].result.id = req[i].saved.id
    /\ req[i].result.name = req[i].saved.name
    /\ req[i].result.message = req[i].saved.message
    /\ "createdAt" \in DOMAIN req[i].saved
    /\ \A k \in RowsOf(i) :
         /\ "createdAt" \in DOMAIN hellos[k]
         /\ hellos[k].createdAt = req[i].saved.createdAt

C6_Witness ==
  \E i \in Calls :
    /\ Returned(i) /\ AbsentName(i)
    /\ req[i].result.name = req[i].saved.name
    /\ req[i].result.name # req[i].name
    /\ \E k \in RowsOf(i) : hellos[k].createdAt = MaxClock

\* C7: the JSON body returned by GET /hello contains a createdAt field next
\* to id, name and message (the endpoint returns the whole saved record).
C7_BodyHasCreatedAt ==
  \A i \in Calls : Returned(i) =>
    DOMAIN req[i].response.body = {"id", "name", "message", "createdAt"}

\* Every call was made after all calls before it had finished.
Sequential == \A i, j \in Calls : (i < j /\ Called(j)) => i \in req[j].before

\* C8 as stated: ids follow the order in which the calls were made, so of
\* two successful calls the one made later has the larger id.
C8_CallOrderIds ==
  \A i, j \in Calls :
    (i < j /\ Returned(i) /\ Returned(j)) => req[j].result.id > req[i].result.id

\* C8, amended: ids are assigned by the store in increasing order of its
\* inserts, starting at 1 on an empty table; a call made after another call
\* returned gets a strictly larger id; on an empty store the first call
\* execute() returns {id: 1, name: null, message: "Hello World!"} and the
\* call execute("Alice") made after it {id: 2, name: "Alice", message:
\* "Hello Alice!"}.
C8_MonotoneIds ==
  /\ \A k \in 1 .. Len(hellos) : hellos[k].id >= 1
  /\ \A k, l \in 1 .. Len(hellos) : k < l => hellos[k].id < hellos[l].id
  /\ \A i \in Calls : Returned(i) =>
       \A j \in req[i].before : Returned(j) => req[i].result.id > req[j].result.id
  /\ (RowsOf(0) = {} /\ Sequential /\ Returned(1) /\ AbsentName(1)) =>
       /\ req[1].result = [id |-> 1, name |-> Null, message |-> Str("Hello World!")]
       /\ (MaxCalls >= 2 /\ Returned(2) /\ req[2].name = Str("Alice")) =>
            req[2].result = [id |-> 2, name |-> Str("Alice"), message |-> Str("Hello Alice!")]

C8_Witness ==
  /\ RowsOf(0) = {} /\ Sequential
  /\ Returned(1) /\ AbsentName(1) /\ req[1].result.id = 1
  /\ Returned(2) /\ req[2].name = Str("Alice") /\ req[2].result.id = 2

\* C9: execute with a name of exactly 100 characters is accepted by the store
\* and inserts the record; execute with a name of 101 characters is handed to
\* the store unchecked, is refused there with ConstraintViolation, and
\* inserts nothing.
C9_LengthBoundary ==
  \A i \in Calls : (Called(i) /\ req[i].name.t = "string") =>
    /\ Len(req[i].name.v) = NameMaxLen =>
         /\ req[i].storeError # ConstraintViolation
         /\ req[i].pc = "awaitSave" =>
              /\ ENABLED SaveOk(i, now)
              /\ ~ENABLED SaveFail(i, ConstraintViolation)
         /\ req[i].pc \in {"resolved", "returned"} =>
              \E k \in RowsOf(i) : hellos[k].name = req[i].name
    /\ Len(req[i].name.v) = NameMaxLen + 1 =>
         /\ req[i].nSave = 1
         /\ req[i].rec.name = req[i].name
         /\ req[i].pc \notin {"resolved", "returned"}
         /\ RowsOf(i) = {}
         /\ req[i].pc = "awaitSave" =>
              /\ ENABLED SaveFail(i, ConstraintViolation)
              /\ \A at \in 0 .. MaxClock : ~ENABLED SaveOk(i, at)

C9_Witness ==
  \E i, j \in Calls :
    /\ Returned(i) /\ Len(req[i].name.v) = NameMaxLen
    /\ \E k \in RowsOf(i) : Len(hellos[k].name.v) = NameMaxLen
    /\ Threw(j) /\ Len(req[j].name.v) = NameMaxLen + 1
    /\ req[j].thrown = ConstraintViolation

\* Reading table hellos by primary key.
FindById(id) ==
  LET S == {k \in 1 .. Len(hellos) : hellos[k].id = id}
  IN  IF S = {} THEN Null ELSE hellos[CHOOSE k \in S : TRUE]

\* C10: a record created through execute and then read from the store by the
\* returned id has the name and the message that execute returned.
C10_RoundTrip ==
  \A i \in Calls : Returned(i) =>
    LET row == FindById(req[i].result.id) IN
      /\ row # Null
      /\ row.name = req[i].result.name
      /\ row.message = req[i].result.message

C10_Witness ==
  \E i \in Calls :
    /\ Returned(i) /\ req[i].name = Str("Alice")
    /\ FindById(req[i].result.id).name = Str("Alice")
    /\ FindById(req[i].result.id).message = Str("Hello Alice!")
    /\ Len(hellos) > 1

\* C12: say calls execute exactly once, with the name query parameter as
\* received (absent when not supplied; no trimming, no normalisation), and
\* returns the use case's result unchanged with status 200.
C12_SayForwards ==
  \A i \in Calls :
    /\ req[i].nExec = (IF Called(i) THEN 1 ELSE 0)
    /\ Called(i) => req[i].execArg = req[i].name
    /\ Returned(i) =>
         /\ req[i].response.status = 200
         /\ req[i].response.body = req[i].result

C12_Witness ==
  \E i, j \in Calls :
    /\ Returned(i) /\ req[i].name = Undefined /\ req[i].execArg = Undefined
    /\ Returned(j) /\ req[j].name = Str("") /\ req[j].execArg = Str("")
    /\ req[j].response.status = 200

C15_AppendOnly ==
  [][ /\ Len(hellos') >= Len(hellos)
      /\ \A k \in 1 .. Len(hellos) : hellos'[k] = hellos[k] ]_vars

C15_Witness ==
  /\ \A i \in Calls : Returned(i)
  /\ Len(hellos) = Len(SeedRows) + MaxCalls
  /\ SubSeq(hellos, 1, Len(SeedRows)) = SeedRows

\* C18: for every interleaving of invocations that are in flight together,
\* each invocation that returns has inserted exactly one row of its own, the
\* rows have distinct ids, and the invocation returns the id, name and
\* message of its own row (the name it was called with), never another's.
C18_IndependentRequests ==
  \A i \in Calls : Returned(i) =>
    /\ Cardinality(RowsOf(i)) = 1
    /\ \A k \in RowsOf(i) :
         /\ hellos[k].id = req[i].result.id
         /\ hellos[k].name = req[i].result.name
         /\ hellos[k].message = req[i].result.message
    /\ req[i].result.name = (IF req[i].name = Undefined THEN Null ELSE req[i].name)
    /\ \A j \in Calls : (j # i /\ req[j].pc \in {"resolved", "returned"}) =>
         /\ req[j].saved.id # req[i].result.id
         /\ RowsOf(j) \cap RowsOf(i) = {}

\* Two invocations overlapped and the store served the later one first.
C18_Witness ==
  \E i, j \in Calls :
    /\ i < j /\ Returned(i) /\ Returned(j)
    /\ i \notin req[j].before
    /\ req[j].result.id < req[i].result.id
    /\ req[i].name = Str("Alice") /\ req[j].name = Str("Bob")
    /\ req[i].result.name = Str("Alice") /\ req[j].result.name = Str("Bob")

\* C19: an empty-string name is present, not absent: execute("") stores and
\* returns name "" and message "Hello !", and GET /hello?name= answers with
\* message "Hello !", not "Hello World!".
C19_EmptyNamePresent ==
  \A i \in Calls : (Called(i) /\ req[i].name = Str("")) =>
    /\ req[i].execArg = Str("")
    /\ req[i].rec = [name |-> Str(""), message |-> Str("Hello !")]
    /\ \A k \in RowsOf(i) :
         hellos[k].name = Str("") /\ hellos[k].message = Str("Hello !")
    /\ Returned(i) =>
         /\ req[i].result.name = Str("")
         /\ req[i].result.message = Str("Hello !")
         /\ req[i].wire.name = Str("")
         /\ req[i].wire.message = Str("Hello !")

C19_Witness ==
  \E i \in Calls :
    /\ Returned(i) /\ req[i].name = Str("")
    /\ req[i].wire.message = Str("Hello !")
    /\ RowsOf(i) # {}

\* The positions of the rows written by runs of the seed script.
SeedRunRows == {k \in 1 .. Len(hellos) : insertedBy[k] < 0}

\* The message the derivation rule gives a stored name.
RuleMessage(name) ==
  IF name = Null THEN Str("Hello World!") ELSE Str("Hello " \o name.v \o "!")

\* C11: in every reachable state, after any sequence of execute calls and
\* seed runs, every stored record has a non-empty message, equal to
\* "Hello " + name + "!" when its name is present and to "Hello World!" when
\* its name is absent.
C11_StoredMessageRule ==
  \A k \in 1 .. Len(hellos) :
    /\ hellos[k].name.t \in {"null", "string"}
    /\ hellos[k].message.t = "string"
    /\ hellos[k].message.v # ""
    /\ hellos[k].message = RuleMessage(hellos[k].name)

C11_Witness ==
  /\ SeedRunRows # {}
  /\ \E k \in 1 .. Len(hellos) : insertedBy[k] > 0 /\ hellos[k].name = Null
  /\ \E i \in Calls : Returned(i)

\* C14: createdAt of every record is assigned by the store at insertion and
\* never by the caller: neither execute nor the seed script hands a
\* createdAt to the store, a new row gets the store's time of insertion,
\* and no later step changes the createdAt of a row.
C14_CreatedAtByStore ==
  [][ /\ \A i \in Calls : req'[i].pc # "idle" =>
           DOMAIN req'[i].rec = {"name", "message"}
      /\ \A k \in 1 .. Len(seed'.payload) :
           DOMAIN seed'.payload[k] = {"name", "message"}
      /\ \A k \in 1 .. Len(hellos) : hellos'[k].createdAt = hellos[k].createdAt
      /\ \A k \in (Len(hellos) + 1) .. Len(hellos') : hellos'[k].createdAt = now' ]_vars

C14_Witness ==
  /\ \E k \in SeedRunRows : hellos[k].createdAt = 0
  /\ \E k \in 1 .. Len(hellos) : insertedBy[k] > 0 /\ hellos[k].createdAt = MaxClock
  /\ seed.pc = "exited"

\* The rows of run r of the seed script.
RunRows(r) == RowsOf(0 - r)

\* C16: the seed operation inserts exactly the pair {name: "Alice", message:
\* "Hello Alice!"} and {name: "Bob", message: "Hello Bob!"}, and leaves id
\* and createdAt to the store.
C16_SeedPair ==
  /\ seed.payload \in { << >>, << [name |-> Str("Alice"), message |-> Str("Hello Alice!")],
                                [name |-> Str("Bob"), message |-> Str("Hello Bob!")] >> }
  /\ \A r \in 1 .. MaxSeedRuns :
       \/ RunRows(r) = {}
       \/ \E k \in 1 .. Len(hellos) - 1 :
            /\ RunRows(r) = {k, k + 1}
            /\ hellos[k].name = Str("Alice") /\ hellos[k].message = Str("Hello Alice!")
            /\ hellos[k + 1].name = Str("Bob") /\ hellos[k + 1].message = Str("Hello Bob!")
            /\ hellos[k + 1].id = hellos[k].id + 1
            /\ \A l \in 1 .. (k - 1) : hellos[l].id < hellos[k].id
            /\ hellos[k + 1].createdAt = hellos[k].createdAt
  /\ seed.pc \in {"inserted", "logged"} => Cardinality(RunRows(seed.run)) = 2

C16_Witness ==
  /\ seed.pc = "inserted"
  /\ \E k \in RunRows(seed.run) : hellos[k].id > 2 /\ hellos[k].createdAt = MaxClock

\* C20 as stated: whenever a run of the seed script exits with code 1,
\* "Seed complete" has not been logged.
C20_FailureNeverLogsComplete ==
  seed.exit = 1 => \A k \in 1 .. Len(seed.log) : seed.log[k] # StdOut("Seed complete")

SeedSteps == <<"initialize", "insert", "log", "destroy">>

\* C20, amended: the seed script runs initialize, insert, log "Seed
\* complete", destroy in this order and stops at the first step that fails,
\* logging the error and exiting with code 1; a run that fails in initialize
\* or insert logs no "Seed complete" and leaves no record; a run that fails
\* in destroy has logged "Seed complete" and leaves its two records; every
\* run whose insert succeeded adds two records, so k such runs leave 2k.
C20_SeederSteps ==
  /\ seed.calls = SubSeq(SeedSteps, 1, Len(seed.calls))
  /\ seed.exit = 0 =>
       /\ seed.calls = SeedSteps
       /\ seed.log = <<StdOut("Seed complete")>>
       /\ Cardinality(RunRows(seed.run)) = 2
  /\ seed.exit = 1 =>
       /\ seed.pc = "exited"
       /\ seed.log # << >>
       /\ seed.log[Len(seed.log)] = StdErr(StorageUnavailable)
       /\ Len(seed.calls) <= 2 =>
            /\ seed.log = <<StdErr(StorageUnavailable)>>
            /\ RunRows(seed.run) = {}
       /\ Len(seed.calls) > 2 =>
            /\ seed.calls = SeedSteps
            /\ seed.log = <<StdOut("Seed complete"), StdErr(StorageUnavailable)>>
            /\ Cardinality(RunRows(seed.run)) = 2
  /\ seed.exit = -1 => seed.pc # "exited"
  /\ Cardinality(SeedRunRows) = 2 * seed.inserts
  /\ seed.inserts <= seed.run

C20_Witness ==
  /\ seed.run = 2 /\ seed.exit = 0
  /\ Cardinality(SeedRunRows) = 4
  /\ seed.inserts = 2

\* C17: the SYNCHRONIZE environment variable controls schema
\* synchronization: the started application synchronizes the schema from
\* the entities when SYNCHRONIZE is "true" and does not when it is "false".
C17_SynchronizeFollowsEnv ==
  boot.app # None =>
    /\ env["SYNCHRONIZE"] = Chars(<<"t", "r", "u", "e">>) =>
         boot.app.synchronize /\ boot.synced
    /\ env["SYNCHRONIZE"] = Chars(<<"f", "a", "l", "s", "e">>) =>
         ~boot.app.synchronize /\ ~boot.synced

\* The named column of the hellos table, as the database holds it.
HellosColumn(tables, name) ==
  LET t == CHOOSE t \in tables : t.name = "hellos"
  IN  t.columns[CHOOSE k \in DOMAIN t.columns : t.columns[k].name = name]

\* The named property of HelloEntity, as its decorator declares it.
EntityColumn(name) ==
  HelloEntity.columns[CHOOSE k \in DOMAIN HelloEntity.columns :
                        HelloEntity.columns[k].propertyName = name]

\* The length and nullability the migration gives a column, and the ones
\* the entity's decorator gives the property (no length: undefined).
TableConstraint(col) ==
  [ maxLength |-> IF col.length.v = << >> THEN Undefined ELSE ParseInt(col.length),
    nullable |-> col.isNullable ]
EntityConstraint(c) ==
  [ maxLength |-> IF "length" \in DOMAIN c THEN [t |-> "number", v |-> c.length]
                  ELSE Undefined,
    nullable |-> Opt(c, "nullable", FALSE) ]

\* The tables hold hellos with exactly the four columns of the migration.
HellosAsDeclared(tables) ==
  /\ Cardinality({ t \in tables : t.name = "hellos" }) = 1
  /\ LET t == CHOOSE t \in tables : t.name = "hellos"
         id == HellosColumn(tables, "id")
         name == HellosColumn(tables, "name")
         message == HellosColumn(tables, "message")
         createdAt == HellosColumn(tables, "createdAt") IN
       /\ { t.columns[k].name : k \in DOMAIN t.columns }
            = { "id", "name", "message", "createdAt" }
       /\ Len(t.columns) = 4
       /\ id.type = "int" /\ id.isPrimary
       /\ id.isGenerated /\ id.generationStrategy = Str("increment")
       /\ name.type = "varchar" /\ ParseInt(name.length).v = 100
       /\ name.isNullable /\ ~name.isPrimary
       /\ message.type = "text" /\ ~message.isNullable /\ ~message.isPrimary
       /\ createdAt.type = "timestamptz" /\ createdAt.default = Str("now()")
       /\ ~createdAt.isPrimary

\* C21: the migration CreateHellos is reversible.  Every migrate leaves the
\* table hellos with the columns id (int, primary key, auto-increment), name
\* (varchar 100, nullable), message (text, required) and createdAt
\* (timestamptz, default now()); every revert leaves no table hellos and no
\* rows; a migrate that follows a revert leaves the schema the first migrate
\* left; and the name and message columns carry the length and nullability
\* HelloEntity declares (name at most 100 and nullable, message required).
C21_MigrationReversible ==
  LET h == schema.history
      runs == { k \in DOMAIN h : h[k].cmd = "run" }
      reverts == { k \in DOMAIN h : h[k].cmd = "revert" } IN
    /\ \A k \in runs :
         /\ HellosAsDeclared(h[k].tables)
         /\ \A n \in { "name", "message" } :
              TableConstraint(HellosColumn(h[k].tables, n))
                = EntityConstraint(EntityColumn(n))
    /\ \A k \in reverts : ~HasTable(h[k].tables, "hellos")
    /\ \A j \in runs, k \in runs : h[j].tables = h[k].tables
    /\ h # << >> => schema.tables = h[Len(h)].tables
    /\ h = << >> => schema.tables = {}
    /\ HasTable(schema.tables, "hellos") <=> schema.executed = <<CreateHellos>>
    /\ ~HasTable(schema.tables, "hellos") => hellos = << >> /\ schema.executed = << >>
    /\ EntityConstraint(EntityColumn("name"))
         = [maxLength |-> [t |-> "number", v |-> 100], nullable |-> TRUE]
    /\ EntityConstraint(EntityColumn("message"))
         = [maxLength |-> Undefined, nullable |-> FALSE]

\* Migrate, seed, revert, migrate again: the schema is the first migrate's
\* and the seeded rows are gone.
C21_Witness ==
  LET h == schema.history IN
    /\ Len(h) >= 3
    /\ h[1].cmd = "run" /\ h[2].cmd = "revert" /\ h[3].cmd = "run"
    /\ h[2].tables = {}
    /\ schema.tables = h[1].tables
    /\ seed.inserts >= 1
    /\ hellos = << >>

====
